---- MODULE Spec2Model ----
(***************************************************************************)
(* Model of luh3417's snapshot orchestration (snapshot/__main__.py: main)  *)
(* and of its transfer functions (snapshot/__init__.py: sync_files,        *)
(* rsync_files, copy_files, copy_files_with_delete, activate/deactivate    *)
(* maintenance mode).                                                      *)
(*                                                                         *)
(* A run is a single control thread; every external call either returns   *)
(* or raises, every external process exits with a return code.  `calls`   *)
(* records the external operations in the order the code invokes them,    *)
(* `exc` is the exception in flight (head) with its __context__ chain.    *)
(***************************************************************************)
EXTENDS Integers, Sequences, FiniteSets, TLC

VARIABLES
    entry,            \* which function the run executes: "main" or "sync_files"
    args,             \* main: the parsed Namespace (maintenance_mode, exclude, exclude_tag_all)
    pc,               \* position of the control thread
    calls,            \* external operations invoked so far, in order
    exc,              \* exception in flight: <<>> or <<newest, ...its __context__ chain>>
    excludes,         \* copy_files parameter
    exclude_tag_alls, \* copy_files parameter
    source_p,         \* copy_files: the producer process (tar -c)
    target_p,         \* copy_files: the consumer process (tar -x)
    src_files,        \* files below source.path
    dst_files,        \* files below target.path
    dst0,             \* files below target.path when the run started
    delete,           \* sync_files parameter
    rc,               \* sync_files: rsync's return code
    stderr,           \* sync_files: rsync's captured stderr (bytes)
    os,               \* copy_files: the pipes between the two tar processes and the parent
    source_tar_command, \* copy_files: the producer's command line
    target_tar_command, \* copy_files: the consumer's command line
    exc_stderr,       \* number of stderr bytes in the message of the newest exception
    clock,            \* the wall clock
    now,              \* main: the run's timestamp
    settings,         \* main: the settings sidecar written by dump_settings
    archive_location  \* main: the name of the archive file

vars == <<entry, args, pc, calls, exc, excludes, exclude_tag_alls, source_p,
          target_p, src_files, dst_files, dst0, delete, rc, stderr, os,
          source_tar_command, target_tar_command, exc_stderr, clock, now,
          settings, archive_location>>

----------------------------------------------------------------------------
(* Bounds *)

\* longest run of arbitrary bytes before and after the core of an rsync stderr
MaxPad == 1

\* bytes an OS pipe buffers before a write to it blocks
PipeCap == 2

\* most bytes the producer has to write to its stdout
MaxOut == 3

\* most bytes a tar process has to write to its stderr
MaxErr == 3

\* longest list of --exclude patterns, and of --exclude-tag-all files
MaxExcludes == 2

\* longest file-name template
MaxTemplateLen == 4

----------------------------------------------------------------------------
(* Python values *)

\* Optional[list]: None, or a list
None == [isNone |-> TRUE]
Some(v) == [isNone |-> FALSE, v |-> v]

\* `if x:` on an Optional[list]: None and [] are falsy
Truthy(x) == ~x.isNone /\ x.v # <<>>

\* the elements a `for` loop over x visits, when `if x:` lets it run
Items(x) == IF Truthy(x) THEN {x.v[i] : i \in 1..Len(x.v)} ELSE {}

\* a process that was not started yet / a started one / an exited one
NotStarted == [state |-> "none", returncode |-> 0]
Running == [state |-> "running", returncode |-> 0]
Exited(code) == [state |-> "exited", returncode |-> code]

\* return codes of an external process: zero, nonzero
ReturnCodes == {0, 1}

\* the pipes of copy_files before any process is started
NoPipes == [out_left |-> 0, pipe |-> 0, tgt_read |-> 0, src_err_left |-> 0,
            src_err_pipe |-> 0, tgt_err_left |-> 0, tgt_err_pipe |-> 0]

\* the size given to stderr.read() where an error message is built
StderrLimit == 1000

\* what a process may have written to its stderr, in bytes: nothing, as much
\* as read(StderrLimit) takes, more than that
StderrSizes == {0, StderrLimit, StderrLimit + 1}

\* stream.read(size) on a stream that holds avail bytes: the bytes returned
read(avail, size) == IF avail < size THEN avail ELSE size

\* one entry of `calls`
Call(op, ok) == [op |-> op, ok |-> ok]

----------------------------------------------------------------------------
(* File trees.  A path is a sequence of components, a component is        *)
(* <<stem, extension>>; a pattern is a component whose stem may be "*".   *)

F_a == << <<"a", ".txt">> >>
F_old == << <<"old", ".txt">> >>
F_git == << <<".git", "">>, <<"config", "">> >>
F_swp == << <<"sub", "">>, <<"b", ".swp">> >>
F_tag == << <<"cache", "">>, <<".exclude_tag", "">> >>
F_bin == << <<"cache", "">>, <<"x", ".bin">> >>

P_git == <<".git", "">>
P_idea == <<".idea", "">>
P_swp == <<"*", ".swp">>
P_un == <<"*", ".un~">>
P_tag == <<".exclude_tag", "">>

\* glob match of a pattern without a slash against one path component
Fnmatch(p, c) == (p[1] = "*" \/ p[1] = c[1]) /\ p[2] = c[2]

\* a path is excluded when a pattern matches any of its components
Excluded(path, patterns) ==
    \E i \in 1..Len(path) : \E p \in patterns : Fnmatch(p, path[i])

\* a path is tag-excluded when one of its directories holds a marker file
TagExcluded(path, files, tags) ==
    \E n \in 0..(Len(path) - 1) : \E t \in tags :
        Append(SubSeq(path, 1, n), t) \in files

----------------------------------------------------------------------------
(* The external tools, by the command line the code builds for them *)

\* rsync_files: the fixed --exclude options of the rsync command
RsyncExcludes == {P_git, P_idea, P_swp, P_un}

\* rsync -rz --exclude=... [--delete] source/ target/ that exits zero:
\* excluded paths are neither sent nor, with --delete, removed at the target
RsyncResult(src, dst, del) ==
    LET sent == {f \in src : ~Excluded(f, RsyncExcludes)}
    IN  IF del
        THEN sent \cup {f \in dst : Excluded(f, RsyncExcludes)}
        ELSE dst \cup sent

\* copy_files: the files `tar -C source [--exclude p].. [--exclude-tag-all t].. -c .` packs
TarSelect(src, excl, tags) ==
    {f \in src : ~Excluded(f, Items(excl)) /\ ~TagExcluded(f, src, Items(tags))}

----------------------------------------------------------------------------
(* Exceptions *)

\* `raise E` while `pending` is being handled (or in flight through a
\* finally block): E propagates, pending becomes E.__context__
Raise(site, pending) == <<site>> \o pending

\* the exception main lets escape (what run_main gets), if any
Surfaced == IF exc = <<>> THEN "none" ELSE Head(exc)

----------------------------------------------------------------------------
(* copy_files(source, target, excludes, exclude_tag_alls) *)

\* source.path and target.path
SourcePath == "/var/www"
TargetPath == "/tmp/d/wordpress"

\* a pattern as the string the command line carries
Glob(p) == p[1] \o p[2]

\* a list of options with the option name given once, before all its values
option_once(opt, list) ==
    <<opt>> \o [i \in 1..Len(list) |-> Glob(list[i])]

\* lines 102-104, 106-108: the loop that appends the option and one value
\* for each element of the list
RECURSIVE option_pairs(_, _)
option_pairs(opt, list) ==
    IF list = <<>> THEN <<>>
    ELSE <<opt, Glob(Head(list))>> \o option_pairs(opt, Tail(list))

\* lines 100-109: source_tar_command
build_source_tar_command(path, excl, tags) ==
    <<"tar", "-C", path>>
        \o (IF Truthy(excl) THEN option_pairs("--exclude", excl.v) ELSE <<>>)
        \o (IF Truthy(tags) THEN option_pairs("--exclude-tag-all", tags.v) ELSE <<>>)
        \o <<"-c", ".">>

\* line 113: the consumer's command
build_target_tar_command(path) == <<"tar", "-C", path, "-x">>

\* where an exception leaving copy_files lands: main calls it inside the
\* try block (line 167), sync_files lets it escape
copy_files_raise_to == IF entry = "main" THEN "finally" ELSE "done"

\* where a normal return of copy_files lands
copy_files_return_to == IF entry = "main" THEN "finally" ELSE "done"

\* copy_files without its check of mkdir's return code
mkdir_never_failed(code) == FALSE

\* line 117: `if cp.returncode:`
mkdir_failed(code) == code # 0

\* lines 100-118: build the command lines, run `mkdir -p target.path`, wait
\* for it, raise on a nonzero exit
copy_files_mkdir ==
    /\ pc = "cf_mkdir"
    /\ source_tar_command' =
          build_source_tar_command(SourcePath, excludes, exclude_tag_alls)
    /\ target_tar_command' = build_target_tar_command(TargetPath)
    /\ \E code \in ReturnCodes :
        /\ calls' = Append(calls, Call("mkdir", code = 0))
        /\ IF mkdir_failed(code)
           THEN /\ exc' = Raise("mkdir", exc)
                /\ \E n \in StderrSizes : exc_stderr' = n
                /\ pc' = copy_files_raise_to
           ELSE /\ exc' = exc
                /\ exc_stderr' = exc_stderr
                /\ pc' = "cf_popen_source"
    /\ UNCHANGED os
    /\ UNCHANGED <<clock, now, settings, archive_location>>
    /\ UNCHANGED <<entry, args, excludes, exclude_tag_alls, source_p, target_p,
                   src_files, dst_files, dst0, delete, rc, stderr>>

\* lines 120-122: start the producer
copy_files_popen_source ==
    /\ pc = "cf_popen_source"
    /\ source_p' = Running
    /\ calls' = Append(calls, Call("tar_c", TRUE))
    /\ pc' = "cf_popen_target"
    /\ UNCHANGED <<os, source_tar_command, target_tar_command, exc_stderr>>
    /\ UNCHANGED <<clock, now, settings, archive_location>>
    /\ UNCHANGED <<entry, args, exc, excludes, exclude_tag_alls, target_p,
                   src_files, dst_files, dst0, delete, rc, stderr>>

\* lines 123-128: start the consumer on the producer's stdout
copy_files_popen_target ==
    /\ pc = "cf_popen_target"
    /\ target_p' = Running
    /\ calls' = Append(calls, Call("tar_x", TRUE))
    /\ pc' = "cf_wait_source"
    /\ UNCHANGED <<os, source_tar_command, target_tar_command, exc_stderr>>
    /\ UNCHANGED <<clock, now, settings, archive_location>>
    /\ UNCHANGED <<entry, args, exc, excludes, exclude_tag_alls, source_p,
                   src_files, dst_files, dst0, delete, rc, stderr>>

\* line 130: source_p.wait()
copy_files_wait_source ==
    /\ pc = "cf_wait_source"
    /\ \E code \in ReturnCodes : source_p' = Exited(code)
    /\ pc' = "cf_wait_target"
    /\ UNCHANGED <<os, source_tar_command, target_tar_command, exc_stderr>>
    /\ UNCHANGED <<clock, now, settings, archive_location>>
    /\ UNCHANGED <<entry, args, calls, exc, excludes, exclude_tag_alls, target_p,
                   src_files, dst_files, dst0, delete, rc, stderr>>

\* line 131: target_p.wait(); by now the consumer has unpacked what it got:
\* everything when both sides exit zero, some part of it otherwise
copy_files_wait_target ==
    /\ pc = "cf_wait_target"
    /\ \E code \in ReturnCodes :
        /\ target_p' = Exited(code)
        /\ LET packed == TarSelect(src_files, excludes, exclude_tag_alls)
           IN  IF source_p.returncode = 0 /\ code = 0
               THEN dst_files' = dst_files \cup packed
               ELSE \E part \in SUBSET packed : dst_files' = dst_files \cup part
    /\ pc' = "cf_check"
    /\ UNCHANGED <<os, source_tar_command, target_tar_command, exc_stderr>>
    /\ UNCHANGED <<clock, now, settings, archive_location>>
    /\ UNCHANGED <<entry, args, calls, exc, excludes, exclude_tag_alls, source_p,
                   src_files, dst0, delete, rc, stderr>>

\* lines 133-139: the exceptions copy_files raises for the two exit codes,
\* in the order it raises them (a raise ends the function)
copy_files_errors(source_rc, target_rc) ==
    IF source_rc # 0 THEN <<"producer">>
    ELSE IF target_rc # 0 THEN <<"consumer">>
    ELSE <<>>

\* lines 133-139
copy_files_check ==
    /\ pc = "cf_check"
    /\ LET errs == copy_files_errors(source_p.returncode, target_p.returncode)
       IN  IF errs # <<>>
           THEN /\ exc' = Raise(Head(errs), exc)
                /\ \E n \in StderrSizes : exc_stderr' = read(n, StderrLimit)
                /\ pc' = copy_files_raise_to
           ELSE /\ exc' = exc
                /\ exc_stderr' = exc_stderr
                /\ pc' = copy_files_return_to
    /\ UNCHANGED <<os, source_tar_command, target_tar_command>>
    /\ UNCHANGED <<clock, now, settings, archive_location>>
    /\ UNCHANGED <<entry, args, calls, excludes, exclude_tag_alls, source_p,
                   target_p, src_files, dst_files, dst0, delete, rc, stderr>>

----------------------------------------------------------------------------
(* main (snapshot/__main__.py) *)

\* main with the activation moved ahead of the settings dump
main_next_activate_early(p) ==
    CASE p = "parse_wp_config" -> "activate_maintenance_mode"
      [] p = "activate_maintenance_mode" -> "dump_settings"
      [] p = "dump_settings" -> "dump_to_file"
      [] p = "dump_to_file" -> "copy_files"
      [] p = "copy_files" -> "finally"
      [] p = "finally" -> "ensure_exists_as_dir"
      [] p = "ensure_exists_as_dir" -> "archive_local_dir"
      [] p = "archive_local_dir" -> "done"

\* main with the two statements of the try block swapped
main_next_copy_first(p) ==
    CASE p = "parse_wp_config" -> "dump_settings"
      [] p = "dump_settings" -> "activate_maintenance_mode"
      [] p = "activate_maintenance_mode" -> "copy_files"
      [] p = "copy_files" -> "dump_to_file"
      [] p = "dump_to_file" -> "finally"
      [] p = "finally" -> "ensure_exists_as_dir"
      [] p = "ensure_exists_as_dir" -> "archive_local_dir"
      [] p = "archive_local_dir" -> "done"

\* lines 148-178: the statement that follows statement p when p completes
\* without raising
main_next(p) ==
    CASE p = "parse_wp_config" -> "dump_settings"
      [] p = "dump_settings" -> "activate_maintenance_mode"
      [] p = "activate_maintenance_mode" -> "dump_to_file"
      [] p = "dump_to_file" -> "copy_files"
      [] p = "copy_files" -> "finally"
      [] p = "finally" -> "ensure_exists_as_dir"
      [] p = "ensure_exists_as_dir" -> "archive_local_dir"
      [] p = "archive_local_dir" -> "done"

\* lines 161-169: the statements inside the try block; an exception they
\* raise runs the finally block, any other exception leaves main
in_try(p) == p \in {"dump_to_file", "copy_files"}

\* the longest the clock runs
MaxClock == 2

\* time passes while main runs; the clock counts half seconds
tick ==
    /\ entry = "main"
    /\ pc # "done"
    /\ clock < MaxClock
    /\ clock' = clock + 1
    /\ UNCHANGED <<entry, args, pc, calls, exc, excludes, exclude_tag_alls,
                   source_p, target_p, src_files, dst_files, dst0, delete, rc,
                   stderr, os, source_tar_command, target_tar_command,
                   exc_stderr, now, settings, archive_location>>

\* datetime.utcnow() when the clock shows c: a naive datetime (tzinfo None)
utcnow(c) ==
    [second |-> c \div 2, microsecond |-> (c % 2) * 500000, tzinfo |-> None]

\* datetime.isoformat(), as a sequence of pieces: the fraction is left out
\* when microsecond is 0, the offset is left out when tzinfo is None
isoformat(dt) ==
    <<"T", ToString(dt.second)>>
        \o (IF dt.microsecond = 0 THEN <<>> ELSE <<".", ToString(dt.microsecond)>>)
        \o (IF dt.tzinfo.isNone THEN <<>> ELSE <<"+00:00">>)

\* str.format(base=, time=) on a template, a sequence of pieces (single
\* characters and replacement fields): the text each piece turns into
format(template, base, time) ==
    [i \in 1..Len(template) |->
        CASE template[i] = "{base}" -> <<base>>
          [] template[i] = "{time}" -> time
          [] OTHER -> <<template[i]>>]

\* the database name parse_wp_config found
WpConfig == [db_name |-> "wpdb"]

\* __main__.py lines 109-121
make_dump_file_name(a, wp_config, t) ==
    LET base_name ==
            IF a.snapshot_base_name.isNone \/ a.snapshot_base_name.v = ""
            THEN wp_config.db_name
            ELSE a.snapshot_base_name.v
        name == format(a.file_name_template, base_name, isoformat(t) \o <<"Z">>)
    IN  [parent |-> a.backup_dir, name |-> name]

\* __main__.py lines 124-136: the content written to settings.json
dump_settings(a, wp_config, t) ==
    [args |-> a, wp_config |-> wp_config, time |-> isoformat(t) \o <<"Z">>]

\* main calling utcnow() again where the archive is named
archive_time_at_write(captured, current) == current

\* line 176: the datetime main hands to make_dump_file_name, given the one
\* captured at line 146 and the one the clock shows now
archive_time(captured, current) == captured

main_raise_to(p) == IF in_try(p) THEN "finally" ELSE "done"

\* a call of an external collaborator that returns or raises
main_call(p) ==
    /\ pc = p
    /\ \E ok \in BOOLEAN :
        /\ calls' = Append(calls, Call(p, ok))
        /\ IF ok
           THEN exc' = exc /\ pc' = main_next(p)
           ELSE exc' = Raise(p, exc) /\ pc' = main_raise_to(p)
    /\ UNCHANGED <<os, source_tar_command, target_tar_command, exc_stderr>>
    /\ UNCHANGED <<clock, now, settings, archive_location>>
    /\ UNCHANGED <<entry, args, excludes, exclude_tag_alls, source_p, target_p,
                   src_files, dst_files, dst0, delete, rc, stderr>>

\* line 146: now = datetime.utcnow()
main_utcnow ==
    /\ pc = "utcnow"
    /\ now' = Some(utcnow(clock))
    /\ pc' = "parse_wp_config"
    /\ UNCHANGED <<entry, args, calls, exc, excludes, exclude_tag_alls,
                   source_p, target_p, src_files, dst_files, dst0, delete, rc,
                   stderr, os, source_tar_command, target_tar_command,
                   exc_stderr, clock, settings, archive_location>>

\* lines 148-149
main_parse_wp_config == main_call("parse_wp_config")

\* lines 154-155: dump_settings writes settings.json or raises
main_dump_settings ==
    /\ pc = "dump_settings"
    /\ \E ok \in BOOLEAN :
        /\ calls' = Append(calls, Call("dump_settings", ok))
        /\ IF ok
           THEN /\ settings' = Some(dump_settings(args, WpConfig, now.v))
                /\ exc' = exc
                /\ pc' = main_next("dump_settings")
           ELSE /\ settings' = settings
                /\ exc' = Raise("dump_settings", exc)
                /\ pc' = main_raise_to("dump_settings")
    /\ UNCHANGED <<os, source_tar_command, target_tar_command, exc_stderr>>
    /\ UNCHANGED <<clock, now, archive_location>>
    /\ UNCHANGED <<entry, args, excludes, exclude_tag_alls, source_p, target_p,
                   src_files, dst_files, dst0, delete, rc, stderr>>

\* activate_maintenance_mode without its check of the return code
activate_never_raises(code) == FALSE

\* deactivate_maintenance_mode without its check of the return code
deactivate_never_raises(code) == FALSE

\* snapshot/__init__.py line 72 (activate), line 87 (deactivate):
\* `if remote_p.returncode: raise LuhError`
activate_raises(code) == code # 0
deactivate_raises(code) == code # 0

\* lines 157-159 with activate_maintenance_mode (snapshot/__init__.py 63-75)
main_activate_maintenance_mode ==
    /\ pc = "activate_maintenance_mode"
    /\ IF args.maintenance_mode = TRUE
       THEN \E code \in ReturnCodes :
               /\ calls' = Append(calls, Call("activate", code = 0))
               /\ IF activate_raises(code)
                  THEN /\ exc' = Raise("activate", exc)
                       /\ \E n \in StderrSizes :
                            exc_stderr' = read(n, StderrLimit)
                       /\ pc' = main_raise_to("activate_maintenance_mode")
                  ELSE /\ exc' = exc
                       /\ exc_stderr' = exc_stderr
                       /\ pc' = main_next("activate_maintenance_mode")
       ELSE /\ pc' = main_next("activate_maintenance_mode")
            /\ UNCHANGED <<calls, exc, exc_stderr>>
    /\ UNCHANGED <<os, source_tar_command, target_tar_command>>
    /\ UNCHANGED <<clock, now, settings, archive_location>>
    /\ UNCHANGED <<entry, args, excludes, exclude_tag_alls, source_p, target_p,
                   src_files, dst_files, dst0, delete, rc, stderr>>

\* lines 162-164: create_from_source and db.dump_to_file
main_dump_to_file == main_call("dump_to_file")

\* lines 166-167: the call copy_files(args.source, work_location.child("wordpress"),
\* args.exclude, args.exclude_tag_all)
main_copy_files ==
    /\ pc = "copy_files"
    /\ excludes' = args.exclude
    /\ exclude_tag_alls' = args.exclude_tag_all
    /\ pc' = "cf_mkdir"
    /\ UNCHANGED <<os, source_tar_command, target_tar_command, exc_stderr>>
    /\ UNCHANGED <<clock, now, settings, archive_location>>
    /\ UNCHANGED <<entry, args, calls, exc, source_p, target_p, src_files,
                   dst_files, dst0, delete, rc, stderr>>

\* the deactivation placed after the try block instead of in its finally
deactivate_on_success_only(a, pending) ==
    a.maintenance_mode = TRUE /\ pending = <<>>

\* the finally block deactivating whether or not maintenance mode was requested
deactivate_always(a, pending) == TRUE

\* line 170: whether the finally block calls deactivate_maintenance_mode;
\* `pending` is the exception in flight through the block, if any
deactivate_in_finally(a, pending) == a.maintenance_mode = TRUE

\* lines 169-172 with deactivate_maintenance_mode (snapshot/__init__.py 78-90),
\* then the re-raise of the exception in flight
main_finally ==
    /\ pc = "finally"
    /\ IF deactivate_in_finally(args, exc)
       THEN \E code \in ReturnCodes :
               /\ calls' = Append(calls, Call("deactivate", code = 0))
               /\ IF deactivate_raises(code)
                  THEN /\ exc' = Raise("deactivate", exc)
                       /\ \E n \in StderrSizes :
                            exc_stderr' = read(n, StderrLimit)
                       /\ pc' = "done"
                  ELSE /\ exc' = exc
                       /\ exc_stderr' = exc_stderr
                       /\ pc' = IF exc = <<>> THEN main_next("finally") ELSE "done"
       ELSE /\ pc' = IF exc = <<>> THEN main_next("finally") ELSE "done"
            /\ UNCHANGED <<calls, exc, exc_stderr>>
    /\ UNCHANGED <<os, source_tar_command, target_tar_command>>
    /\ UNCHANGED <<clock, now, settings, archive_location>>
    /\ UNCHANGED <<entry, args, excludes, exclude_tag_alls, source_p, target_p,
                   src_files, dst_files, dst0, delete, rc, stderr>>

\* line 175: args.backup_dir.ensure_exists_as_dir()
main_ensure_exists_as_dir == main_call("ensure_exists_as_dir")

\* lines 176-178: make_dump_file_name, then archive_location.archive_local_dir
\* writes the archive or raises
main_archive_local_dir ==
    /\ pc = "archive_local_dir"
    /\ archive_location' =
          Some(make_dump_file_name(args, WpConfig,
                                   archive_time(now.v, utcnow(clock))))
    /\ \E ok \in BOOLEAN :
        /\ calls' = Append(calls, Call("archive_local_dir", ok))
        /\ IF ok
           THEN exc' = exc /\ pc' = main_next("archive_local_dir")
           ELSE /\ exc' = Raise("archive_local_dir", exc)
                /\ pc' = main_raise_to("archive_local_dir")
    /\ UNCHANGED <<os, source_tar_command, target_tar_command, exc_stderr>>
    /\ UNCHANGED <<clock, now, settings>>
    /\ UNCHANGED <<entry, args, excludes, exclude_tag_alls, source_p, target_p,
                   src_files, dst_files, dst0, delete, rc, stderr>>

----------------------------------------------------------------------------
(* The snapshot run *)

\* argparse action="append": None, or the non-empty list of the options given
ExcludeArgs == {None, Some(<<P_git>>), Some(<<P_swp, P_git>>)}
ExcludeTagAllArgs == {None, Some(<<P_tag>>)}

\* the files a WordPress installation may hold
SourceFiles == {F_a, F_git, F_swp, F_tag, F_bin}

\* __main__.py lines 47-52: the default of --file-name-template, as pieces
DefaultTemplate ==
    <<"{base}", "_", "{time}", ".", "t", "a", "r", ".", "g", "z">>

\* the backup_dir argument
BackupDir == "/backups"

Init ==
    /\ entry = "main"
    /\ args \in [maintenance_mode : BOOLEAN, exclude : ExcludeArgs,
                 exclude_tag_all : ExcludeTagAllArgs,
                 file_name_template : {DefaultTemplate},
                 snapshot_base_name : {None}, backup_dir : {BackupDir}]
    /\ pc = "utcnow"
    /\ calls = <<>>
    /\ exc = <<>>
    /\ excludes = None
    /\ exclude_tag_alls = None
    /\ source_p = NotStarted
    /\ target_p = NotStarted
    /\ src_files \in SUBSET SourceFiles
    /\ dst_files = {}
    /\ dst0 = {}
    /\ delete = FALSE
    /\ rc = 0
    /\ stderr = <<>>
    /\ os = NoPipes
    /\ source_tar_command = <<>>
    /\ target_tar_command = <<>>
    /\ exc_stderr = 0
    /\ clock = 0
    /\ now = None
    /\ settings = None
    /\ archive_location = None

Next ==
    \/ main_utcnow
    \/ main_parse_wp_config
    \/ main_dump_settings
    \/ main_activate_maintenance_mode
    \/ main_dump_to_file
    \/ main_copy_files
    \/ copy_files_mkdir
    \/ copy_files_popen_source
    \/ copy_files_popen_target
    \/ copy_files_wait_source
    \/ copy_files_wait_target
    \/ copy_files_check
    \/ main_finally
    \/ main_ensure_exists_as_dir
    \/ main_archive_local_dir

Spec == Init /\ [][Next]_vars

----------------------------------------------------------------------------
(* sync_files(source, target, delete) (snapshot/__init__.py) *)

\* the bytes b"command not found" and the pattern "command not found"
CommandNotFound ==
    <<"c", "o", "m", "m", "a", "n", "d", " ", "n", "o", "t", " ",
      "f", "o", "u", "n", "d">>

\* str(b) of a bytes b: b'...' with a newline written as backslash, n
RECURSIVE Escape(_)
Escape(b) ==
    IF b = <<>> THEN <<>>
    ELSE (IF Head(b) = "\n" THEN <<"\\", "n">> ELSE <<Head(b)>>) \o Escape(Tail(b))

Str(b) == <<"b", "'">> \o Escape(b) \o <<"'">>

\* re.search(pattern, string) is not None; "." matches any character but a
\* newline, every other character of the patterns used matches itself
re_matches_at(pattern, string, i) ==
    /\ i + Len(pattern) - 1 <= Len(string)
    /\ \A k \in 1..Len(pattern) :
        IF pattern[k] = "." THEN string[i + k - 1] # "\n"
        ELSE string[i + k - 1] = pattern[k]

re_search(pattern, string) ==
    \E i \in 1..Len(string) : re_matches_at(pattern, string, i)

\* line 45: re.search("command not found", str(stderr))
cmd_not_found(err) == re_search(CommandNotFound, Str(err))

\* sync_files falling back after every failure of rsync
falls_back_on_any_failure(code, err) == code # 0

\* line 44-46: whether sync_files falls back to the tar stream
falls_back(code, err) == code # 0 /\ cmd_not_found(err)

\* line 40: target.ensure_exists_as_dir() returns or raises
sync_files_ensure_exists_as_dir ==
    /\ pc = "sf_ensure_exists_as_dir"
    /\ \E ok \in BOOLEAN :
        /\ calls' = Append(calls, Call("ensure_exists_as_dir", ok))
        /\ IF ok
           THEN exc' = exc /\ pc' = "sf_rsync_files"
           ELSE exc' = Raise("ensure_exists_as_dir", exc) /\ pc' = "done"
    /\ UNCHANGED <<os, source_tar_command, target_tar_command, exc_stderr>>
    /\ UNCHANGED <<clock, now, settings, archive_location>>
    /\ UNCHANGED <<entry, args, excludes, exclude_tag_alls, source_p, target_p,
                   src_files, dst_files, dst0, delete, rc, stderr>>

\* what rsync may print: some bytes around a shell's or rsync's own message
PadBytes == {"x", "\n"}
Pads == UNION {[1..n -> PadBytes] : n \in 0..MaxPad}
StderrCores ==
    { <<>>,
      CommandNotFound,
      SubSeq(CommandNotFound, 1, Len(CommandNotFound) - 1),
      <<"C">> \o Tail(CommandNotFound),
      <<"d", "e", "n", "i", "e", "d">> }
Stderrs == {a \o core \o b : a \in Pads, core \in StderrCores, b \in Pads}

\* line 42 with rsync_files (lines 11-32): run rsync and wait for it
sync_files_rsync_files ==
    /\ pc = "sf_rsync_files"
    /\ \E code \in ReturnCodes, err \in Stderrs :
        /\ rc' = code
        /\ stderr' = err
        /\ calls' = Append(calls, Call("rsync", code = 0))
        /\ LET done == RsyncResult(src_files, dst_files, delete)
           IN  IF code = 0
               THEN dst_files' = done
               ELSE \E got \in SUBSET (done \ dst_files),
                       lost \in SUBSET (dst_files \ done) :
                       dst_files' = (dst_files \ lost) \cup got
    /\ pc' = "sf_check"
    /\ UNCHANGED <<os, source_tar_command, target_tar_command, exc_stderr>>
    /\ UNCHANGED <<clock, now, settings, archive_location>>
    /\ UNCHANGED <<entry, args, exc, excludes, exclude_tag_alls, source_p,
                   target_p, src_files, dst0, delete>>

\* lines 44-49
sync_files_check ==
    /\ pc = "sf_check"
    /\ IF rc # 0
       THEN IF falls_back(rc, stderr)
            THEN exc' = exc /\ exc_stderr' = exc_stderr /\ pc' = "cfwd"
            ELSE /\ exc' = Raise("rsync", exc)
                 /\ exc_stderr' = Len(stderr)
                 /\ pc' = "done"
       ELSE exc' = exc /\ exc_stderr' = exc_stderr /\ pc' = "done"
    /\ UNCHANGED <<os, source_tar_command, target_tar_command>>
    /\ UNCHANGED <<clock, now, settings, archive_location>>
    /\ UNCHANGED <<entry, args, calls, excludes, exclude_tag_alls, source_p,
                   target_p, src_files, dst_files, dst0, delete, rc, stderr>>

----------------------------------------------------------------------------
(* copy_files_with_delete(source, target, delete) *)

\* copy_files_with_delete without its deletion
deletes_never(del) == FALSE

\* line 144: `if delete:`
deletes_first(del) == del

\* line 144
copy_files_with_delete_begin ==
    /\ pc = "cfwd"
    /\ pc' = IF deletes_first(delete) THEN "cfwd_delete_dir_content"
             ELSE "cfwd_copy_files"
    /\ UNCHANGED <<os, source_tar_command, target_tar_command, exc_stderr>>
    /\ UNCHANGED <<clock, now, settings, archive_location>>
    /\ UNCHANGED <<entry, args, calls, exc, excludes, exclude_tag_alls, source_p,
                   target_p, src_files, dst_files, dst0, delete, rc, stderr>>

\* line 145: target.delete_dir_content() empties the directory, or raises
\* having removed part of it
copy_files_with_delete_delete_dir_content ==
    /\ pc = "cfwd_delete_dir_content"
    /\ \E ok \in BOOLEAN :
        /\ calls' = Append(calls, Call("delete_dir_content", ok))
        /\ IF ok
           THEN /\ dst_files' = {}
                /\ exc' = exc
                /\ pc' = "cfwd_ensure_exists_as_dir"
           ELSE /\ \E left \in SUBSET dst_files : dst_files' = left
                /\ exc' = Raise("delete_dir_content", exc)
                /\ pc' = "done"
    /\ UNCHANGED <<os, source_tar_command, target_tar_command, exc_stderr>>
    /\ UNCHANGED <<clock, now, settings, archive_location>>
    /\ UNCHANGED <<entry, args, excludes, exclude_tag_alls, source_p, target_p,
                   src_files, dst0, delete, rc, stderr>>

\* line 146: target.ensure_exists_as_dir()
copy_files_with_delete_ensure_exists_as_dir ==
    /\ pc = "cfwd_ensure_exists_as_dir"
    /\ \E ok \in BOOLEAN :
        /\ calls' = Append(calls, Call("ensure_exists_as_dir", ok))
        /\ IF ok
           THEN exc' = exc /\ pc' = "cfwd_copy_files"
           ELSE exc' = Raise("ensure_exists_as_dir", exc) /\ pc' = "done"
    /\ UNCHANGED <<os, source_tar_command, target_tar_command, exc_stderr>>
    /\ UNCHANGED <<clock, now, settings, archive_location>>
    /\ UNCHANGED <<entry, args, excludes, exclude_tag_alls, source_p, target_p,
                   src_files, dst_files, dst0, delete, rc, stderr>>

\* line 148: copy_files(source, target, None, None)
copy_files_with_delete_copy_files ==
    /\ pc = "cfwd_copy_files"
    /\ excludes' = None
    /\ exclude_tag_alls' = None
    /\ pc' = "cf_mkdir"
    /\ UNCHANGED <<os, source_tar_command, target_tar_command, exc_stderr>>
    /\ UNCHANGED <<clock, now, settings, archive_location>>
    /\ UNCHANGED <<entry, args, calls, exc, source_p, target_p, src_files,
                   dst_files, dst0, delete, rc, stderr>>

----------------------------------------------------------------------------
(* A sync_files call *)

\* source trees without tag-excluded directories, and what the target may hold
SyncSourceFiles == {F_a, F_git, F_swp}
TargetFiles == {F_old, F_git}

InitSync ==
    /\ entry = "sync_files"
    /\ args = [maintenance_mode |-> FALSE, exclude |-> None, exclude_tag_all |-> None]
    /\ pc = "sf_ensure_exists_as_dir"
    /\ calls = <<>>
    /\ exc = <<>>
    /\ excludes = None
    /\ exclude_tag_alls = None
    /\ source_p = NotStarted
    /\ target_p = NotStarted
    /\ src_files \in SUBSET SyncSourceFiles
    /\ dst_files \in SUBSET TargetFiles
    /\ dst0 = dst_files
    /\ delete \in BOOLEAN
    /\ rc = 0
    /\ stderr = <<>>
    /\ os = NoPipes
    /\ source_tar_command = <<>>
    /\ target_tar_command = <<>>
    /\ exc_stderr = 0
    /\ clock = 0
    /\ now = None
    /\ settings = None
    /\ archive_location = None

NextSync ==
    \/ sync_files_ensure_exists_as_dir
    \/ sync_files_rsync_files
    \/ sync_files_check
    \/ copy_files_with_delete_begin
    \/ copy_files_with_delete_delete_dir_content
    \/ copy_files_with_delete_ensure_exists_as_dir
    \/ copy_files_with_delete_copy_files
    \/ copy_files_mkdir
    \/ copy_files_popen_source
    \/ copy_files_popen_target
    \/ copy_files_wait_source
    \/ copy_files_wait_target
    \/ copy_files_check

SpecSync == InitSync /\ [][NextSync]_vars

----------------------------------------------------------------------------
(* Properties of the snapshot run (Spec) *)

\* the positions of `calls` that hold operation op
Idx(op) == {i \in 1..Len(calls) : calls[i].op = op}

\* the operations copy_files performs
CopyOps == {"mkdir", "tar_c", "tar_x"}

\* the exceptions the transfer step (copy_files) raises
TransferErrors == {"mkdir", "producer", "consumer"}

\* the exceptions in the chain of `exc`
Chain == {exc[i] : i \in 1..Len(exc)}

\* maintenance mode is active when call k is made: an activate succeeded
\* before it and no deactivate was invoked in between
ActiveAt(k) ==
    \E i \in Idx("activate") :
        /\ i < k
        /\ calls[i].ok
        /\ ~\E j \in Idx("deactivate") : i < j /\ j < k

\* C1: with maintenance mode requested, after every successful
\* activate_maintenance_mode the run invokes deactivate_maintenance_mode at
\* most once, and exactly once by the time main is left, whether the dump and
\* copy_files succeeded or one of them raised.
C1_DeactivateExactlyOnce ==
    \A i \in Idx("activate") :
        calls[i].ok =>
            LET n == Cardinality({j \in Idx("deactivate") : j > i})
            IN  n <= 1 /\ (pc = "done" => n = 1)

\* C1 witness: a run whose copy_files raised after a successful activate and
\* that deactivated once
C1_Witness ==
    /\ pc = "done"
    /\ args.maintenance_mode
    /\ \E i \in Idx("activate") : calls[i].ok
    /\ Chain \cap TransferErrors # {}
    /\ Cardinality(Idx("deactivate")) = 1

\* C2: when activate_maintenance_mode fails, it is the last operation of the
\* run: main is left with that failure, and no deactivate, dump, copy or
\* archive operation follows.
C2_ActivateFailureAborts ==
    \A i \in Idx("activate") :
        ~calls[i].ok => i = Len(calls) /\ pc = "done" /\ Surfaced = "activate"

\* C2 witness: a run that ended on a failed activate
C2_Witness ==
    /\ pc = "done"
    /\ calls # <<>>
    /\ calls[Len(calls)] = Call("activate", FALSE)

\* C3: when the transfer failed and deactivate then failed too, the failure
\* main surfaces is the transfer failure.
C3_TransferFailurePrimary ==
    (/\ pc = "done"
     /\ Chain \cap TransferErrors # {}
     /\ "deactivate" \in Chain)
        => Surfaced \in TransferErrors

\* C4 (as claimed): the database dump never runs while maintenance mode is
\* active.
C4_DumpOutsideBracket ==
    \A k \in Idx("dump_to_file") : ~ActiveAt(k)

\* C4 (amended): while maintenance mode is active the run performs the
\* database dump and the file copy and nothing else before it deactivates, and
\* with maintenance mode requested the dump always runs inside the bracket.
C4_BracketWrapsDumpAndCopy ==
    /\ \A k \in 1..Len(calls) :
        ActiveAt(k) => calls[k].op \in {"dump_to_file", "deactivate"} \cup CopyOps
    /\ \A k \in Idx("dump_to_file") : args.maintenance_mode => ActiveAt(k)
    /\ \A k \in Idx("deactivate") :
        \A j \in 1..Len(calls) :
            (j < k /\ calls[j].op \in CopyOps) =>
                \E d \in Idx("dump_to_file") : d < j /\ ActiveAt(d)

\* C4 witness: a bracket that held the dump and the whole file copy
C4_Witness ==
    /\ \E i \in Idx("activate") : calls[i].ok
    /\ \E k \in Idx("deactivate") :
        /\ \E d \in Idx("dump_to_file") : d < k /\ ActiveAt(d)
        /\ \E x \in Idx("tar_x") : x < k /\ ActiveAt(x)

\* C5 (as claimed): the file transfer has completed before the database
\* dump starts.
C5_CopyBeforeDump ==
    \A k \in Idx("dump_to_file") :
        /\ \E x \in Idx("tar_x") : x < k
        /\ target_p.state = "exited"

\* C5 (amended): the steps run in the order configuration read, database
\* dump, file transfer, archive build: the dump has completed before
\* copy_files starts, and the dump and both tar processes have completed
\* before the archive step starts.
C5_StepOrder ==
    /\ \A k \in Idx("dump_to_file") :
        \E c \in Idx("parse_wp_config") : c < k /\ calls[c].ok
    /\ \A k \in 1..Len(calls) :
        calls[k].op \in CopyOps =>
            \E d \in Idx("dump_to_file") : d < k /\ calls[d].ok
    /\ \A k \in Idx("ensure_exists_as_dir") \cup Idx("archive_local_dir") :
        /\ \E d \in Idx("dump_to_file") : d < k /\ calls[d].ok
        /\ \E x \in Idx("tar_x") : x < k
        /\ source_p.state = "exited"
        /\ target_p.state = "exited"

\* C5 witness: a run that wrote the archive
C5_Witness ==
    /\ pc = "done"
    /\ exc = <<>>
    /\ \E k \in Idx("archive_local_dir") : calls[k].ok

----------------------------------------------------------------------------
(* Properties of sync_files and copy_files (SpecSync) *)

\* the bytes `sub` occur in the bytes `b`
Contains(b, sub) ==
    \E i \in 1..(Len(b) - Len(sub) + 1) : SubSeq(b, i, i + Len(sub) - 1) = sub

\* the operations of the tar-stream path (copy_files_with_delete)
TarPathOps == {"delete_dir_content", "mkdir", "tar_c", "tar_x"}

\* the control thread is inside copy_files_with_delete, or was
TarPathTaken ==
    \/ pc \in {"cfwd", "cfwd_delete_dir_content", "cfwd_ensure_exists_as_dir",
               "cfwd_copy_files", "cf_mkdir"}
    \/ \E k \in 1..Len(calls) : calls[k].op \in TarPathOps

C7_FallbackMatchesRsync ==
    (pc = "done" /\ exc = <<>> /\ Idx("tar_x") # {})
        => dst_files = RsyncResult(src_files, dst0, delete)

\* C8: once copy_files is over, a nonzero exit of the consumer is among the
\* failures it raised, and so is a nonzero exit of the producer.
C8_BothFailuresReported ==
    (target_p.state = "exited" /\ pc # "cf_check") =>
        /\ target_p.returncode # 0 => "consumer" \in Chain
        /\ source_p.returncode # 0 => "producer" \in Chain

\* C9: with delete=True the tar processes start only after delete_dir_content
\* and then ensure_exists_as_dir have succeeded, on an empty target, and no
\* deletion follows the start of the pipe; with delete=False nothing is
\* deleted.
C9_DeleteBeforePipe ==
    /\ \A t \in Idx("tar_c") \cup Idx("tar_x") :
        delete =>
            \E d \in Idx("delete_dir_content"), e \in Idx("ensure_exists_as_dir") :
                d < e /\ e < t /\ calls[d].ok /\ calls[e].ok
    /\ \A d \in Idx("delete_dir_content") :
        \A t \in Idx("tar_c") \cup Idx("tar_x") : d < t
    /\ (delete /\ pc \in {"cf_popen_source", "cf_popen_target", "cf_wait_source",
                          "cf_wait_target"}) => dst_files = {}
    /\ ~delete => Idx("delete_dir_content") = {} /\ dst0 \subseteq dst_files

\* C9 witness: a deleting fallback whose pipe was started on a target that
\* held files
C9_Witness ==
    /\ delete
    /\ dst0 # {}
    /\ Idx("tar_x") # {}
    /\ \E d \in Idx("delete_dir_content") : calls[d].ok

\* C10: rsync starts only after ensure_exists_as_dir succeeded, the tar
\* processes only after `mkdir -p` exited zero; a failed directory step
\* raises, and no rsync or tar process is started after it.
C10_FailFast ==
    /\ \A r \in Idx("rsync") :
        \E e \in Idx("ensure_exists_as_dir") : e < r /\ calls[e].ok
    /\ \A t \in Idx("tar_c") \cup Idx("tar_x") :
        \E m \in Idx("mkdir") : m < t /\ calls[m].ok
    /\ \A i \in Idx("mkdir") \cup Idx("ensure_exists_as_dir") :
        ~calls[i].ok =>
            /\ exc # <<>>
            /\ Head(exc) = calls[i].op
            /\ pc = "done"
            /\ \A j \in 1..Len(calls) :
                j > i => calls[j].op \notin {"rsync", "tar_c", "tar_x"}
            /\ source_p.state = "none" /\ target_p.state = "none"

\* C10 witness: a fallback that stopped at a failed mkdir
C10_Witness ==
    /\ pc = "done"
    /\ calls # <<>>
    /\ calls[Len(calls)] = Call("mkdir", FALSE)
    /\ Idx("tar_c") = {}

----------------------------------------------------------------------------
(* copy_files with its two processes and their pipes (lines 120-131).      *)
(* The producer's stdout pipe is read by the consumer; the parent keeps its *)
(* own handle on the read end (source_p.stdout is never closed) and reads   *)
(* neither that pipe nor the two stderr pipes before both waits are over.   *)

\* every action of the processes leaves the control thread alone
PipeFrame ==
    /\ UNCHANGED <<entry, args, pc, calls, exc, excludes, exclude_tag_alls,
                   src_files, dst_files, dst0, delete, rc, stderr>>
    /\ UNCHANGED <<source_tar_command, target_tar_command, exc_stderr, clock,
                   now, settings, archive_location>>

\* a process inside a write() that waits for room in a full pipe
Blocked(fd) == [state |-> fd, returncode |-> 0]

\* tar -c writes a byte to its stdout: the pipe has room
source_p_write_stdout ==
    /\ source_p.state \in {"running", "blocked_stdout"}
    /\ os.out_left > 0
    /\ os.pipe < PipeCap
    /\ os' = [os EXCEPT !.out_left = @ - 1, !.pipe = @ + 1]
    /\ source_p' = Running
    /\ UNCHANGED target_p
    /\ PipeFrame

\* tar -c writes to its stdout with the pipe full: the write blocks until
\* the pipe is read (the read end stays open in the parent, source_p.stdout,
\* so there is no SIGPIPE when the consumer is gone)
source_p_block_stdout ==
    /\ source_p.state = "running"
    /\ os.out_left > 0
    /\ os.pipe = PipeCap
    /\ source_p' = Blocked("blocked_stdout")
    /\ UNCHANGED <<target_p, os>>
    /\ PipeFrame

\* tar -c writes a byte to its stderr pipe (stderr=subprocess.PIPE, line 121)
source_p_write_stderr ==
    /\ source_p.state \in {"running", "blocked_stderr"}
    /\ os.src_err_left > 0
    /\ os.src_err_pipe < PipeCap
    /\ os' = [os EXCEPT !.src_err_left = @ - 1, !.src_err_pipe = @ + 1]
    /\ source_p' = Running
    /\ UNCHANGED target_p
    /\ PipeFrame

\* tar -c writes to its stderr with that pipe full: nobody reads it before
\* the waits are over
source_p_block_stderr ==
    /\ source_p.state = "running"
    /\ os.src_err_left > 0
    /\ os.src_err_pipe = PipeCap
    /\ source_p' = Blocked("blocked_stderr")
    /\ UNCHANGED <<target_p, os>>
    /\ PipeFrame

\* tar -c exits: with zero once all its output is written, with nonzero
\* once its messages are written (it gives up the rest of the archive)
source_p_exit ==
    /\ source_p.state = "running"
    /\ os.src_err_left = 0
    /\ \E code \in ReturnCodes :
        /\ code = 0 => os.out_left = 0
        /\ source_p' = Exited(code)
    /\ os' = [os EXCEPT !.out_left = 0]
    /\ UNCHANGED target_p
    /\ PipeFrame

\* tar -x reads a byte from its stdin (stdin=source_p.stdout, line 125)
target_p_read_stdin ==
    /\ target_p.state = "running"
    /\ os.pipe > 0
    /\ os' = [os EXCEPT !.pipe = @ - 1, !.tgt_read = @ + 1]
    /\ UNCHANGED <<source_p, target_p>>
    /\ PipeFrame

\* tar -x writes a byte to its stderr pipe (stderr=subprocess.PIPE, line 126)
target_p_write_stderr ==
    /\ target_p.state \in {"running", "blocked_stderr"}
    /\ os.tgt_err_left > 0
    /\ os.tgt_err_pipe < PipeCap
    /\ os' = [os EXCEPT !.tgt_err_left = @ - 1, !.tgt_err_pipe = @ + 1]
    /\ target_p' = Running
    /\ UNCHANGED source_p
    /\ PipeFrame

\* tar -x writes to its stderr with that pipe full
target_p_block_stderr ==
    /\ target_p.state = "running"
    /\ os.tgt_err_left > 0
    /\ os.tgt_err_pipe = PipeCap
    /\ target_p' = Blocked("blocked_stderr")
    /\ UNCHANGED <<source_p, os>>
    /\ PipeFrame

\* tar -x exits once its messages are written: at the end of its input (the
\* producer has exited and the pipe is drained), or early with nonzero
target_p_exit ==
    /\ target_p.state = "running"
    /\ os.tgt_err_left = 0
    /\ \E code \in ReturnCodes :
        /\ code = 0 => (source_p.state = "exited" /\ os.pipe = 0)
        /\ target_p' = Exited(code)
    /\ UNCHANGED <<source_p, os>>
    /\ PipeFrame

\* line 130: source_p.wait() returns when the producer has exited
copy_files_source_p_wait ==
    /\ pc = "cf_wait_source"
    /\ source_p.state = "exited"
    /\ pc' = "cf_wait_target"
    /\ UNCHANGED <<entry, args, calls, exc, excludes, exclude_tag_alls, source_p,
                   target_p, src_files, dst_files, dst0, delete, rc, stderr, os>>
    /\ UNCHANGED <<source_tar_command, target_tar_command, exc_stderr, clock,
                   now, settings, archive_location>>

\* line 131: target_p.wait() returns when the consumer has exited
copy_files_target_p_wait ==
    /\ pc = "cf_wait_target"
    /\ target_p.state = "exited"
    /\ LET packed == TarSelect(src_files, excludes, exclude_tag_alls)
       IN  IF source_p.returncode = 0 /\ target_p.returncode = 0
           THEN dst_files' = dst_files \cup packed
           ELSE \E part \in SUBSET packed : dst_files' = dst_files \cup part
    /\ pc' = "cf_check"
    /\ UNCHANGED <<entry, args, calls, exc, excludes, exclude_tag_alls, source_p,
                   target_p, src_files, dst0, delete, rc, stderr, os>>
    /\ UNCHANGED <<source_tar_command, target_tar_command, exc_stderr, clock,
                   now, settings, archive_location>>

\* a call copy_files(source, target, None, None); the processes have up to
\* MaxOut bytes of archive and MaxErr bytes of messages to write
InitPipe ==
    /\ entry = "copy_files"
    /\ args = [maintenance_mode |-> FALSE, exclude |-> None, exclude_tag_all |-> None]
    /\ pc = "cf_mkdir"
    /\ calls = <<>>
    /\ exc = <<>>
    /\ excludes = None
    /\ exclude_tag_alls = None
    /\ source_p = NotStarted
    /\ target_p = NotStarted
    /\ src_files = {F_a}
    /\ dst_files = {}
    /\ dst0 = {}
    /\ delete = FALSE
    /\ rc = 0
    /\ stderr = <<>>
    /\ os \in [out_left : 0..MaxOut, pipe : {0}, tgt_read : {0},
               src_err_left : 0..MaxErr, src_err_pipe : {0},
               tgt_err_left : 0..MaxErr, tgt_err_pipe : {0}]
    /\ source_tar_command = <<>>
    /\ target_tar_command = <<>>
    /\ exc_stderr = 0
    /\ clock = 0
    /\ now = None
    /\ settings = None
    /\ archive_location = None

NextPipe ==
    \/ copy_files_mkdir
    \/ copy_files_popen_source
    \/ copy_files_popen_target
    \/ source_p_write_stdout
    \/ source_p_block_stdout
    \/ source_p_write_stderr
    \/ source_p_block_stderr
    \/ source_p_exit
    \/ target_p_read_stdin
    \/ target_p_write_stderr
    \/ target_p_block_stderr
    \/ target_p_exit
    \/ copy_files_source_p_wait
    \/ copy_files_target_p_wait
    \/ copy_files_check

\* the processes and the control thread each take their next step when they can
SpecPipe == InitPipe /\ [][NextPipe]_vars /\ WF_vars(NextPipe)

\* C11: once the consumer has exited, copy_files is over or some step of
\* it or of the producer can still be taken: copy_files is never left
\* waiting forever.
C11_CopyFilesTerminates ==
    target_p.state = "exited" => (pc = "done" \/ ENABLED NextPipe)

----------------------------------------------------------------------------
(* A copy_files call with any lists of patterns (SpecCopy) *)

\* the lists of length up to MaxExcludes over a set of patterns, and None
OptionalLists(patterns) ==
    {None} \cup {Some(l) : l \in UNION {[1..n -> patterns] : n \in 0..MaxExcludes}}

InitCopy ==
    /\ entry = "copy_files"
    /\ args = [maintenance_mode |-> FALSE, exclude |-> None, exclude_tag_all |-> None]
    /\ pc = "cf_mkdir"
    /\ calls = <<>>
    /\ exc = <<>>
    /\ excludes \in OptionalLists({P_git, P_swp})
    /\ exclude_tag_alls \in OptionalLists({P_tag, P_idea})
    /\ source_p = NotStarted
    /\ target_p = NotStarted
    /\ src_files \in SUBSET SourceFiles
    /\ dst_files = {}
    /\ dst0 = {}
    /\ delete = FALSE
    /\ rc = 0
    /\ stderr = <<>>
    /\ os = NoPipes
    /\ source_tar_command = <<>>
    /\ target_tar_command = <<>>
    /\ exc_stderr = 0
    /\ clock = 0
    /\ now = None
    /\ settings = None
    /\ archive_location = None

NextCopy ==
    \/ copy_files_mkdir
    \/ copy_files_popen_source
    \/ copy_files_popen_target
    \/ copy_files_wait_source
    \/ copy_files_wait_target
    \/ copy_files_check

SpecCopy == InitCopy /\ [][NextCopy]_vars

\* the list an Optional[list] stands for in the command line
Listed(x) == IF x.isNone THEN <<>> ELSE x.v

\* C12: the producer's command is tar -C source.path, then --exclude and the
\* pattern for each exclude in order, then --exclude-tag-all and the file for
\* each marker file in order, then -c . ; None and the empty list add
\* nothing; the consumer's command is tar -C target.path -x.
C12_TarCommands ==
    pc # "cf_mkdir" =>
        LET c == source_tar_command
            E == Listed(excludes)
            T == Listed(exclude_tag_alls)
            n == Len(E)
            m == Len(T)
        IN  /\ Len(c) = 5 + 2 * n + 2 * m
            /\ SubSeq(c, 1, 3) = <<"tar", "-C", SourcePath>>
            /\ \A i \in 1..n :
                c[2 + 2 * i] = "--exclude" /\ c[3 + 2 * i] = Glob(E[i])
            /\ \A j \in 1..m :
                /\ c[2 + 2 * n + 2 * j] = "--exclude-tag-all"
                /\ c[3 + 2 * n + 2 * j] = Glob(T[j])
            /\ SubSeq(c, Len(c) - 1, Len(c)) = <<"-c", ".">>
            /\ target_tar_command = <<"tar", "-C", TargetPath, "-x">>

\* C12 witness: the commands of a call with two excludes and two marker files
C12_Witness ==
    /\ pc = "cf_popen_source"
    /\ ~excludes.isNone /\ Len(excludes.v) = 2 /\ excludes.v[1] # excludes.v[2]
    /\ ~exclude_tag_alls.isNone /\ Len(exclude_tag_alls.v) = 2
    /\ Len(source_tar_command) = 13

----------------------------------------------------------------------------
(* parse_args (snapshot/__main__.py lines 93-106; backup_database.py lines  *)
(* 77-90 are the same statements)                                           *)

\* re.sub(pattern, repl, string) from position i on: the leftmost match is
\* replaced and the scan goes on behind it
RECURSIVE re_sub_from(_, _, _, _)
re_sub_from(pattern, repl, string, i) ==
    IF i > Len(string) THEN <<>>
    ELSE IF re_matches_at(pattern, string, i)
         THEN repl \o re_sub_from(pattern, repl, string, i + Len(pattern))
         ELSE <<string[i]>> \o re_sub_from(pattern, repl, string, i + 1)

re_sub(pattern, repl, string) == re_sub_from(pattern, repl, string, 1)

\* the pattern ".gz" and the replacement strings
Gz == <<".", "g", "z">>
Bz2 == <<".", "b", "z", "2">>
Lz == <<".", "l", "z">>
Xz == <<".", "x", "z">>

\* choices of --compression-mode
CompressionModes == {"gzip", "bzip2", "lzip", "xz"}

\* lines 96-104: "apply compression mode to file name template"
apply_compression_mode(mode, template) ==
    IF mode = "bzip2" THEN re_sub(Gz, Bz2, template)
    ELSE IF mode = "lzip" THEN re_sub(Gz, Lz, template)
    ELSE IF mode = "xz" THEN re_sub(Gz, Xz, template)
    ELSE template

\* lines 93-106
parse_args ==
    /\ pc = "parse_args"
    /\ args' = [args EXCEPT !.file_name_template =
                    apply_compression_mode(args.compression_mode, @)]
    /\ pc' = "parsed"
    /\ UNCHANGED <<entry, calls, exc, excludes, exclude_tag_alls, source_p,
                   target_p, src_files, dst_files, dst0, delete, rc, stderr, os>>
    /\ UNCHANGED <<source_tar_command, target_tar_command, exc_stderr, clock,
                   now, settings, archive_location>>

\* the characters of a template, and the templates of up to MaxTemplateLen
TemplateChars == {".", "g", "z", "a"}
Templates == UNION {[1..n -> TemplateChars] : n \in 0..MaxTemplateLen}

\* the Namespace argparse returns at line 93
InitParse ==
    /\ entry = "parse_args"
    /\ args \in [file_name_template : Templates, compression_mode : CompressionModes]
    /\ pc = "parse_args"
    /\ calls = <<>>
    /\ exc = <<>>
    /\ excludes = None
    /\ exclude_tag_alls = None
    /\ source_p = NotStarted
    /\ target_p = NotStarted
    /\ src_files = {}
    /\ dst_files = {}
    /\ dst0 = {}
    /\ delete = FALSE
    /\ rc = 0
    /\ stderr = <<>>
    /\ os = NoPipes
    /\ source_tar_command = <<>>
    /\ target_tar_command = <<>>
    /\ exc_stderr = 0
    /\ clock = 0
    /\ now = None
    /\ settings = None
    /\ archive_location = None

NextParse == parse_args

SpecParse == InitParse /\ [][NextParse]_vars

\* the extension a compression mode stands for
ExtensionOf(mode) ==
    CASE mode = "gzip" -> Gz
      [] mode = "bzip2" -> Bz2
      [] mode = "lzip" -> Lz
      [] mode = "xz" -> Xz

\* a template with its trailing .gz extension, if it has one, replaced
WithExtension(template, ext) ==
    LET n == Len(template)
    IN  IF n >= 3 /\ SubSeq(template, n - 2, n) = Gz
        THEN SubSeq(template, 1, n - 3) \o ext
        ELSE template

\* C13: parse_args changes at most the trailing .gz extension of the
\* template, to the extension of the compression mode; nothing else of the
\* template is altered.
C13_OnlyExtensionChanges ==
    [][parse_args =>
        args'.file_name_template =
            WithExtension(args.file_name_template, ExtensionOf(args.compression_mode))]_vars

----------------------------------------------------------------------------
\* C14: the message of every failure raised for a nonzero exit of an external
\* process carries at most StderrLimit bytes of that process's stderr.
C14_BoundedStderr == exc_stderr <= StderrLimit

----------------------------------------------------------------------------
\* the operations of the archive step: they create and write the backup
\* destination
ArchiveOps == {"ensure_exists_as_dir", "archive_local_dir"}

\* the calls of the archive step made so far
ArchiveCalls == UNION {Idx(op) : op \in ArchiveOps}

\* every call of the archive step was made after the dump and copy_files
\* both succeeded and, with maintenance mode requested, after a successful
\* deactivation
ArchiveReachedAfterSuccess ==
    \A k \in ArchiveCalls :
        /\ \E d \in Idx("dump_to_file") : d < k /\ calls[d].ok
        /\ \E m \in Idx("mkdir") : m < k /\ calls[m].ok
        /\ source_p.state = "exited" /\ source_p.returncode = 0
        /\ target_p.state = "exited" /\ target_p.returncode = 0
        /\ args.maintenance_mode =>
              \E j \in Idx("deactivate") : j < k /\ calls[j].ok

\* C15 (as claimed): the archive step is reached only after the dump,
\* copy_files and the requested deactivation succeeded, and in every failed
\* run the backup destination is never created, written or deleted by main.
C15_FailedRunLeavesDestination ==
    /\ ArchiveReachedAfterSuccess
    /\ (pc = "done" /\ exc # <<>>) => ArchiveCalls = {}

\* C15 (amended): the archive step is reached only after the dump and
\* copy_files both succeeded and, with maintenance mode requested, the
\* deactivation succeeded; a run that failed before the archive step never
\* touched the backup destination.
C15_ArchiveOnlyAfterSuccess ==
    /\ ArchiveReachedAfterSuccess
    /\ (exc # <<>> /\ Surfaced \notin ArchiveOps) => ArchiveCalls = {}

\* C15 witness: with maintenance mode requested, a run that wrote its archive
C15_Witness ==
    /\ pc = "done"
    /\ exc = <<>>
    /\ args.maintenance_mode
    /\ \E k \in Idx("archive_local_dir") : calls[k].ok

----------------------------------------------------------------------------
(* The run timestamp *)

\* templates with no, one and two {time} fields
TimeTemplates ==
    { DefaultTemplate, <<"{time}", "-", "{time}">>, <<"{base}", ".", "g", "z">> }

\* --snapshot-base-name: not given, given empty, given
BaseNames == {None, Some(""), Some("site")}

InitTime ==
    /\ entry = "main"
    /\ args \in [maintenance_mode : BOOLEAN, exclude : {None},
                 exclude_tag_all : {None},
                 file_name_template : TimeTemplates,
                 snapshot_base_name : BaseNames, backup_dir : {BackupDir}]
    /\ pc = "utcnow"
    /\ calls = <<>>
    /\ exc = <<>>
    /\ excludes = None
    /\ exclude_tag_alls = None
    /\ source_p = NotStarted
    /\ target_p = NotStarted
    /\ src_files = {F_a}
    /\ dst_files = {}
    /\ dst0 = {}
    /\ delete = FALSE
    /\ rc = 0
    /\ stderr = <<>>
    /\ os = NoPipes
    /\ source_tar_command = <<>>
    /\ target_tar_command = <<>>
    /\ exc_stderr = 0
    /\ clock = 0
    /\ now = None
    /\ settings = None
    /\ archive_location = None

NextTime == Next \/ tick

SpecTime == InitTime /\ [][NextTime]_vars

\* the places of the {time} field in a template
TimeSlots(template) == {i \in 1..Len(template) : template[i] = "{time}"}

\* how many pieces of a text are the piece x
Count(x, text) == Cardinality({i \in 1..Len(text) : text[i] = x})

\* C16: the run timestamp is captured once, from the clock at the start of
\* main before any other step, and never changes; the time field of the
\* settings file and every {time} field of the archive name hold that value
\* in ISO form followed by exactly one Z, so they agree whatever the clock
\* shows when they are written.
C16_OneRunTimestamp ==
    /\ [](now.isNone => calls = <<>> /\ settings.isNone /\ archive_location.isNone)
    /\ [][now.isNone /\ ~now'.isNone => now'.v = utcnow(clock) /\ calls = <<>>]_vars
    /\ [][~now.isNone => now' = now]_vars
    /\ [](~settings.isNone =>
            /\ settings.v.time = isoformat(now.v) \o <<"Z">>
            /\ Count("Z", settings.v.time) = 1)
    /\ [](~archive_location.isNone =>
            \A i \in TimeSlots(args.file_name_template) :
                /\ archive_location.v.name[i] = isoformat(now.v) \o <<"Z">>
                /\ Count("Z", archive_location.v.name[i]) = 1
                /\ ~settings.isNone /\ archive_location.v.name[i] = settings.v.time)

\* C16 witness: a finished run whose archive name has a {time} field and
\* whose archive was written after the clock moved on from the captured time
C16_Witness ==
    /\ pc = "done"
    /\ exc = <<>>
    /\ ~now.isNone /\ ~archive_location.isNone /\ ~settings.isNone
    /\ TimeSlots(args.file_name_template) # {}
    /\ now.v # utcnow(clock)
    /\ now.v # utcnow(0)

----------------------------------------------------------------------------
\* C17: in a run where maintenance mode was not requested, neither
\* activate_maintenance_mode nor deactivate_maintenance_mode is ever invoked,
\* whether the dump and copy steps succeed or fail.
C17_NoMaintenanceCalls ==
    ~args.maintenance_mode => Idx("activate") = {} /\ Idx("deactivate") = {}

\* C17 witness: without maintenance mode, a run whose copy_files raised and
\* that went through the finally block to the end
C17_Witness ==
    /\ pc = "done"
    /\ ~args.maintenance_mode
    /\ Chain \cap TransferErrors # {}
    /\ \E d \in Idx("dump_to_file") : calls[d].ok

====
